---- MODULE Spec2Model ----
(***************************************************************************)
(* A model of Bullish-Design/fileman: the FileEntry record (models.py),    *)
(* the metadata-based producer (pathlib_collector.py) and the text-based   *)
(* producer (lsd_parser.py).                                               *)
(*                                                                         *)
(* A Python str is a sequence of one-character strings.  A Python int that *)
(* may exceed 32 bits (a byte count) is a little-endian sequence of        *)
(* base-1024 digits.  An Optional[str] is None (the empty tuple) or        *)
(* Some(s) (a one-element tuple holding the string).                       *)
(***************************************************************************)
EXTENDS Integers, Sequences, FiniteSets, TLC

VARIABLES
    size_bytes,   \* format_size: the argument (base-1024 digits)
    size_out,     \* format_size: the returned string, Pending before the call
    line,         \* parse_lsd_line: the argument
    line_pc,      \* parse_lsd_line: "input" before the call, "done" after it
    parsed,       \* parse_lsd_line: the return value, None or Some(FileEntry)
    prog,         \* which program runs: "pathlib", "lsd", "both" or "none"
    path_kind,    \* the target path: "missing", "file" or "dir"
    list_denied,  \* iterdir() on the target raises PermissionError
    fs,           \* the target directory: child name -> child
    mutations,    \* changes another process has made to the directory
    p_pc,         \* pathlib_collector: position in main / collect_directory / collect_entry
    p_items,      \* collect_directory: sorted(directory.iterdir())
    p_idx,        \* collect_directory: index of the current item
    p_st,         \* collect_entry: st, the result of path.lstat()
    p_type,       \* collect_entry: entry_data["type"]
    p_entries,    \* collect_directory: entries
    p_statted,    \* history: the children whose lstat() succeeded, in call order
    p_stderr,     \* pathlib_collector: diagnostics printed to standard error
    p_stdout,     \* pathlib_collector: documents printed to standard output
    p_exit,       \* pathlib_collector: exit code, Running before the exit
    lsd_env,      \* the listing tool: [found, rc, out]
    l_pc,         \* lsd_parser: position in main / parse_lsd_output
    l_lines,      \* parse_lsd_output: output.splitlines()
    l_idx,        \* parse_lsd_output: index of the current line
    l_entries,    \* parse_lsd_output: entries
    l_stdout,     \* lsd_parser: documents printed to standard output
    l_exit,       \* lsd_parser: exit code, Running before the exit
    perm_mode,    \* format_permissions: the argument mode
    perm_out,     \* format_permissions: the returned string, Pending before the call
    os_environ,   \* the process environment: variable name -> value
    t_environ0,   \* history: os.environ when print_tree_with_lsd was called
    t_pc,         \* print_tree_with_lsd: position
    t_depth,      \* print_tree_with_lsd: depth, None or Some(n)
    t_hidden,     \* print_tree_with_lsd: include_hidden
    t_lsd,        \* whether the lsd executable can be started
    t_env,        \* print_tree_with_lsd: env
    t_cmd,        \* print_tree_with_lsd: cmd
    t_runs,       \* the subprocesses started so far: [cmd, env]
    s_fs,         \* scan_tree: the directory tree under root, a set of [path, kind]
    s_opts,       \* scan_tree: max_depth, include_hidden, follow_symlinks, exclude_globs
    s_pc,         \* scan_tree: position
    s_stack,      \* scan_tree: stack, a sequence of [path, depth]
    s_cur,        \* scan_tree: dpath and depth of the directory being scanned
    s_iter,       \* scan_tree: the entries os.scandir has yet to yield
    s_nodes,      \* scan_tree: the nodes built so far, a set of [path, type]
    s_pushed,     \* history: the paths pushed on the stack, in order
    s_scanned     \* history: the paths os.scandir was called on, in order

sizeVars == <<size_bytes, size_out>>
lineVars == <<line, line_pc, parsed>>
envVars == <<prog, path_kind, list_denied, lsd_env>>
pVars == <<p_pc, p_items, p_idx, p_st, p_type, p_entries, p_statted, p_stderr,
           p_stdout, p_exit>>
lVars == <<l_pc, l_lines, l_idx, l_entries, l_stdout, l_exit>>
permVars == <<perm_mode, perm_out>>
treeVars == <<os_environ, t_environ0, t_pc, t_depth, t_hidden, t_lsd, t_env, t_cmd,
             t_runs>>
scanVars == <<s_fs, s_opts, s_pc, s_stack, s_cur, s_iter, s_nodes, s_pushed, s_scanned>>
toolVars == <<permVars, treeVars, scanVars>>
vars == <<size_bytes, size_out, line, line_pc, parsed, prog, path_kind,
          list_denied, fs, mutations, p_pc, p_items, p_idx, p_st, p_type,
          p_entries, p_statted, p_stderr, p_stdout, p_exit, lsd_env, l_pc,
          l_lines, l_idx, l_entries, l_stdout, l_exit, perm_mode,
          perm_out, os_environ, t_environ0, t_pc, t_depth, t_hidden, t_lsd, t_env,
          t_cmd, t_runs, s_fs, s_opts, s_pc, s_stack, s_cur, s_iter, s_nodes,
          s_pushed, s_scanned>>

----------------------------------------------------------------------------
(* Strings *)

Pending == <<"<pending>">>

None == <<>>
Some(s) == <<s>>

DigitChar(d) == <<"0", "1", "2", "3", "4", "5", "6", "7", "8", "9">>[d + 1]

IsDigitChar(c) == c \in {"0", "1", "2", "3", "4", "5", "6", "7", "8", "9"}

\* str(n) for an int n >= 0
RECURSIVE DecChars(_)
DecChars(n) == IF n < 10 THEN <<DigitChar(n)>>
               ELSE DecChars(n \div 10) \o <<DigitChar(n % 10)>>

IsSpace(c) == c \in {" ", "\t", "\n", "\r"}

\* The least element of a non-empty set of integers
Least(S) == CHOOSE i \in S : \A j \in S : i <= j

\* The position of the first whitespace character of s, Len(s) + 1 without one
FirstSpace(s) == Least({i \in 1..Len(s) : IsSpace(s[i])} \cup {Len(s) + 1})

\* The position of the first other character of s, Len(s) + 1 without one
FirstNonSpace(s) == Least({i \in 1..Len(s) : ~IsSpace(s[i])} \cup {Len(s) + 1})

\* The position of the last non-whitespace character of s, 0 without one
LastNonSpace(s) ==
    LET at == {i \in 1..Len(s) : ~IsSpace(s[i])} \cup {0}
    IN  CHOOSE i \in at : \A j \in at : j <= i

lstrip(s) == SubSeq(s, FirstNonSpace(s), Len(s))

rstrip(s) == SubSeq(s, 1, LastNonSpace(s))

\* str.strip()
strip(s) == rstrip(lstrip(s))

\* str.split(): the maximal runs of non-whitespace characters
RECURSIVE split(_)
split(s) ==
    LET t == lstrip(s)
    IN  IF t = <<>> THEN <<>>
        ELSE <<SubSeq(t, 1, FirstSpace(t) - 1)>> \o split(SubSeq(t, FirstSpace(t), Len(t)))

\* str.split(c) for a one-character separator c
RECURSIVE SplitOn(_, _)
SplitOn(s, c) ==
    LET at == {i \in 1..Len(s) : s[i] = c}
    IN  IF at = {} THEN <<s>>
        ELSE <<SubSeq(s, 1, Least(at) - 1)>> \o SplitOn(SubSeq(s, Least(at) + 1, Len(s)), c)

\* sep.join(parts)
RECURSIVE join(_, _)
join(sep, parts) ==
    IF parts = <<>> THEN <<>>
    ELSE IF Len(parts) = 1 THEN parts[1]
    ELSE parts[1] \o sep \o join(sep, Tail(parts))

\* str.find(sub) + 1: the first position sub occurs at, 0 when it does not
Find(s, sub) ==
    LET hits == {i \in 1..(Len(s) - Len(sub) + 1) : SubSeq(s, i, i + Len(sub) - 1) = sub}
    IN  IF hits = {} THEN 0 ELSE Least(hits)

\* s.split(sep, 1) for an s that contains sep
split_once(s, sep) ==
    LET i == Find(s, sep)
    IN  <<SubSeq(s, 1, i - 1), SubSeq(s, i + Len(sep), Len(s))>>

\* parts[lo:hi] with Python's clamping (lo, hi 0-based, hi exclusive)
Slice(parts, lo, hi) ==
    SubSeq(parts, lo + 1, IF hi < Len(parts) THEN hi ELSE Len(parts))

----------------------------------------------------------------------------
(* models.FileEntry *)

EntryTypes == {"file", "directory", "symlink"}

\* What stands for the ValidationError FileEntry(...) raises
ValidationError ==
    [permissions |-> <<>>, user |-> <<>>, group |-> <<>>, size |-> <<>>,
     timestamp |-> <<>>, name |-> <<>>, type |-> "ValidationError",
     target |-> None]

\* FileEntry(**entry_data): target defaults to None; type must be one of the
\* three literals, else construction raises
FileEntry(entry_data) ==
    IF entry_data.type \notin EntryTypes THEN ValidationError
    ELSE [permissions |-> entry_data.permissions,
          user |-> entry_data.user,
          group |-> entry_data.group,
          size |-> entry_data.size,
          timestamp |-> entry_data.timestamp,
          name |-> entry_data.name,
          type |-> entry_data.type,
          target |-> IF "target" \in DOMAIN entry_data
                     THEN Some(entry_data.target) ELSE None]

----------------------------------------------------------------------------
(* lsd_parser.parse_lsd_line *)

Arrow == <<" ", "-", ">", " ">>
MinParts == 9

\* A parser that calls an entry a symlink exactly when it parsed a target
parse_lsd_line_by_target(raw) ==
    LET stripped == strip(raw)
        parts == split(stripped)
        name_str == join(<<" ">>, Slice(parts, 10, Len(parts)))
        has_target == Find(name_str, Arrow) # 0
        file_type == IF has_target THEN "symlink"
                     ELSE IF parts[1][1] = "d" THEN "directory"
                     ELSE "file"
        entry_data == [permissions |-> parts[1], user |-> parts[2],
                       group |-> parts[3], size |-> parts[4] \o <<" ">> \o parts[5],
                       timestamp |-> join(<<" ">>, Slice(parts, 5, 10)),
                       name |-> IF has_target THEN split_once(name_str, Arrow)[1]
                                ELSE name_str,
                       type |-> file_type]
    IN  IF stripped = <<>> \/ Len(parts) < MinParts THEN None
        ELSE IF has_target
             THEN Some(FileEntry(entry_data @@ [target |-> split_once(name_str, Arrow)[2]]))
             ELSE Some(FileEntry(entry_data))

parse_lsd_line(raw) ==
    LET stripped == strip(raw)
        parts == split(stripped)
        permissions == parts[1]
        size == parts[4] \o <<" ">> \o parts[5]
        timestamp == join(<<" ">>, Slice(parts, 5, 10))
        name_str == join(<<" ">>, Slice(parts, 10, Len(parts)))
        has_target == Find(name_str, Arrow) # 0
        name == IF has_target THEN split_once(name_str, Arrow)[1] ELSE name_str
        file_type == IF permissions[1] = "d" THEN "directory"
                     ELSE IF permissions[1] = "l" THEN "symlink"
                     ELSE "file"
        entry_data == [permissions |-> permissions, user |-> parts[2],
                       group |-> parts[3], size |-> size,
                       timestamp |-> timestamp, name |-> name,
                       type |-> file_type]
    IN  IF stripped = <<>> THEN None
        ELSE IF Len(parts) < MinParts THEN None
        ELSE IF has_target
             THEN Some(FileEntry(entry_data @@ [target |-> split_once(name_str, Arrow)[2]]))
             ELSE Some(FileEntry(entry_data))

----------------------------------------------------------------------------
(* pathlib_collector.format_size *)

KiB == 1024
NDigits == 6

UnitNames == << <<"B">>, <<"K", "B">>, <<"M", "B">>, <<"G", "B">>, <<"T", "B">> >>

\* units[k+1] = (UnitNames[k+1], 1024^k)
NUnits == 5

\* size_bytes >= 1024^k
GeUnit(n, k) == \E i \in (k + 1)..NDigits : n[i] # 0

\* floor(size_bytes / 1024^k), for the k format_size selects
RECURSIVE IntPartFrom(_, _)
IntPartFrom(n, i) == IF i > NDigits THEN 0 ELSE n[i] + KiB * IntPartFrom(n, i + 1)

IntPart(n, k) == IntPartFrom(n, k + 1)

\* Carry into digit j of 10 * (the digits below j)
RECURSIVE Carry10(_, _)
Carry10(n, j) == IF j = 1 THEN 0 ELSE (10 * n[j - 1] + Carry10(n, j - 1)) \div KiB

Digit10(n, j) == (10 * n[j] + Carry10(n, j)) % KiB

\* The fraction 0.d_k d_(k-1) .. d_1 (base 1024) against 1/2: -1, 0 or 1
HalfCmp(top, restNonzero) ==
    IF top > KiB \div 2 \/ (top = KiB \div 2 /\ restNonzero) THEN 1
    ELSE IF top = KiB \div 2 THEN 0 ELSE -1

FracCmp(n, k) ==
    IF k = 0 THEN -1
    ELSE HalfCmp(n[k], \E j \in 1..(k - 1) : n[j] # 0)

TenthsCmp(n, k) ==
    IF k = 0 THEN -1
    ELSE HalfCmp(Digit10(n, k), \E j \in 1..(k - 1) : Digit10(n, j) # 0)

\* round-half-even, as the float formatter rounds an exactly represented value
RoundHalfEven(q, cmp) == IF cmp = 1 \/ (cmp = 0 /\ q % 2 = 1) THEN q + 1 ELSE q

\* f"{value:.0f}" for value = size_bytes / 1024^k
Fmt0f(n, k) == DecChars(RoundHalfEven(IntPart(n, k), FracCmp(n, k)))

\* f"{value:.1f}" for value = size_bytes / 1024^k
Fmt1f(n, k) ==
    LET q == RoundHalfEven(10 * IntPart(n, k) + Carry10(n, k + 1), TenthsCmp(n, k))
    IN  DecChars(q \div 10) \o <<".">> \o <<DigitChar(q % 10)>>

format_size(n) ==
    LET hit == {k \in 0..(NUnits - 1) : GeUnit(n, k)}
    IN  IF hit = {} THEN DecChars(IntPart(n, 0)) \o <<" ", "B">>
        ELSE LET k == CHOOSE x \in hit : \A y \in hit : y <= x
             IN  IF IntPart(n, k) >= 10
                 THEN Fmt0f(n, k) \o <<" ">> \o UnitNames[k + 1]
                 ELSE Fmt1f(n, k) \o <<" ">> \o UnitNames[k + 1]

----------------------------------------------------------------------------
(* pathlib_collector.format_permissions *)

S_IFDIR == 16384
S_IFLNK == 40960
S_IFREG == 32768
S_IFIFO == 4096
S_IRUSR == 256
S_IWUSR == 128
S_IXUSR == 64
S_IRGRP == 32
S_IWGRP == 16
S_IXGRP == 8
S_IROTH == 4
S_IWOTH == 2
S_IXOTH == 1

\* stat.S_IFMT(mode): mode & 0o170000
S_IFMT(mode) == ((mode \div 4096) % 16) * 4096
S_ISDIR(mode) == S_IFMT(mode) = S_IFDIR
S_ISLNK(mode) == S_IFMT(mode) = S_IFLNK

\* A test that is true when the mask's bit or any higher bit is set
HasBitOrAbove(mode, mask) == mode \div mask # 0

\* mode & mask, for a one-bit mask
HasBit(mode, mask) == (mode \div mask) % 2 = 1

Flag(mode, mask, letter) == IF HasBit(mode, mask) THEN letter ELSE "-"

format_permissions(mode) ==
    LET type_char == IF S_ISDIR(mode) THEN "d"
                     ELSE IF S_ISLNK(mode) THEN "l"
                     ELSE "-"
        owner == <<Flag(mode, S_IRUSR, "r"), Flag(mode, S_IWUSR, "w"), Flag(mode, S_IXUSR, "x")>>
        group == <<Flag(mode, S_IRGRP, "r"), Flag(mode, S_IWGRP, "w"), Flag(mode, S_IXGRP, "x")>>
        other == <<Flag(mode, S_IROTH, "r"), Flag(mode, S_IWOTH, "w"), Flag(mode, S_IXOTH, "x")>>
    IN  <<type_char>> \o owner \o group \o other

----------------------------------------------------------------------------
(* pathlib_collector.format_timestamp, for instants of January 1970 in a   *)
(* process whose local time zone is UTC                                    *)

SecondsPerDay == 86400

WeekdayNames == << <<"T", "h", "u">>, <<"F", "r", "i">>, <<"S", "a", "t">>,
                   <<"S", "u", "n">>, <<"M", "o", "n">>, <<"T", "u", "e">>,
                   <<"W", "e", "d">> >>

Pad2(n) == IF n < 10 THEN <<"0">> \o DecChars(n) ELSE DecChars(n)

\* dt.strftime("%a %b %d %H:%M:%S %Y")
format_timestamp(ts) ==
    LET days == ts \div SecondsPerDay
        secs == ts % SecondsPerDay
    IN  WeekdayNames[(days % 7) + 1] \o <<" ", "J", "a", "n", " ">> \o Pad2(days + 1)
        \o <<" ">> \o Pad2(secs \div 3600) \o <<":">> \o Pad2((secs \div 60) % 60)
        \o <<":">> \o Pad2(secs % 60) \o <<" ", "1", "9", "7", "0">>

----------------------------------------------------------------------------
(* The filesystem queries collect_entry makes *)

\* A child of the target directory.  tkind is what a symlink resolves to.
Child(kind, perm, uid, gid, size, mtime, link, tkind, denied) ==
    [kind |-> kind, perm |-> perm, uid |-> uid, gid |-> gid, size |-> size,
     mtime |-> mtime, link |-> link, tkind |-> tkind, denied |-> denied]

Absent == Child("absent", 0, 0, 0, <<>>, 0, <<>>, "none", FALSE)

TypeBits(kind) ==
    IF kind = "dir" THEN S_IFDIR
    ELSE IF kind = "symlink" THEN S_IFLNK
    ELSE IF kind = "fifo" THEN S_IFIFO
    ELSE S_IFREG

NoStat == [ok |-> FALSE, st_mode |-> 0, st_uid |-> 0, st_gid |-> 0,
           st_size |-> <<>>, st_mtime |-> 0]

\* path.lstat(): the child's own status; OSError (ok = FALSE) when the child
\* is gone or may not be examined
lstat(f, name) ==
    LET c == f[name]
    IN  IF c.kind = "absent" \/ c.denied THEN NoStat
        ELSE [ok |-> TRUE, st_mode |-> TypeBits(c.kind) + c.perm,
              st_uid |-> c.uid, st_gid |-> c.gid, st_size |-> c.size,
              st_mtime |-> c.mtime]

\* path.is_symlink(): False for a missing path
is_symlink(f, name) == f[name].kind = "symlink"

\* path.is_dir(): follows symlinks; False for a missing path
is_dir(f, name) ==
    \/ f[name].kind = "dir"
    \/ f[name].kind = "symlink" /\ f[name].tkind = "dir"

\* os.readlink: Some(text), or None for OSError
readlink(f, name) ==
    IF f[name].kind = "symlink" THEN Some(f[name].link) ELSE None

\* str(Path(text)): empty and "." components and a trailing "/" are dropped
PathStr(text) ==
    LET comps == SplitOn(text, "/")
        kept == SelectSeq(comps, LAMBDA x : x # <<>> /\ x # <<".">>)
        body == join(<<"/">>, kept)
    IN  IF text # <<>> /\ text[1] = "/" THEN <<"/">> \o body
        ELSE IF body = <<>> THEN <<".">>
        ELSE body

\* pwd.getpwuid(uid).pw_name / grp.getgrgid(gid).gr_name: None is KeyError
PasswdDb(uid) == IF uid = 0 THEN Some(<<"r", "o", "o", "t">>) ELSE None
GroupDb(gid) == IF gid = 100 THEN Some(<<"u", "s", "e", "r", "s">>) ELSE None

\* A lookup whose failure leaves the field without a name
user_name_unknown(st) == IF PasswdDb(st.st_uid) # None THEN PasswdDb(st.st_uid)[1]
                         ELSE <<"?">>

user_name(st) == IF PasswdDb(st.st_uid) # None THEN PasswdDb(st.st_uid)[1]
                 ELSE DecChars(st.st_uid)

group_name(st) == IF GroupDb(st.st_gid) # None THEN GroupDb(st.st_gid)[1]
                  ELSE DecChars(st.st_gid)

Unreadable == <<"?", "?", "?">>

\* collect_entry's entry_data, before the target is added
entry_data_of(name, st, type) ==
    [permissions |-> format_permissions(st.st_mode),
     user |-> user_name(st),
     group |-> group_name(st),
     size |-> format_size(st.st_size),
     timestamp |-> format_timestamp(st.st_mtime),
     name |-> name,
     type |-> type]

\* entry_data["target"] = str(path.readlink()), "???" on OSError
target_of(link) == IF link = None THEN Unreadable ELSE PathStr(link[1])

\* get_file_type on a directory f that does not change during the call
get_file_type(f, name) ==
    IF is_symlink(f, name) THEN "symlink"
    ELSE IF is_dir(f, name) THEN "directory"
    ELSE "file"

\* collect_entry on a directory f that does not change during the call,
\* for a child whose lstat() succeeds
collect_entry(f, name) ==
    LET data == entry_data_of(name, lstat(f, name), get_file_type(f, name))
    IN  IF is_symlink(f, name)
        THEN FileEntry(data @@ [target |-> target_of(readlink(f, name))])
        ELSE FileEntry(data)

----------------------------------------------------------------------------
(* sorted(directory.iterdir(), key=lambda p: p.name) *)

\* The characters of the model in code point order
CharOrder == <<"\t", "\n", " ", "-", ".", "/", ">", "a", "b">>

Ord(c) == CHOOSE i \in 1..Len(CharOrder) : CharOrder[i] = c

\* a < b for str
RECURSIVE StrLess(_, _)
StrLess(a, b) ==
    IF b = <<>> THEN FALSE
    ELSE IF a = <<>> THEN TRUE
    ELSE IF Head(a) = Head(b) THEN StrLess(Tail(a), Tail(b))
    ELSE Ord(Head(a)) < Ord(Head(b))

RECURSIVE SortNames(_)
SortNames(S) ==
    IF S = {} THEN <<>>
    ELSE LET m == CHOOSE x \in S : \A y \in S \ {x} : StrLess(x, y)
         IN  <<m>> \o SortNames(S \ {m})

iterdir(f) == {n \in DOMAIN f : f[n].kind # "absent"}

\* The children in descending order of name, as sorted(..., reverse=True)
reversed_items(f) ==
    LET s == SortNames(iterdir(f))
    IN  [i \in 1..Len(s) |-> s[Len(s) + 1 - i]]

sorted_items(f) == SortNames(iterdir(f))

----------------------------------------------------------------------------
(* FileListings.model_dump_json: the printed document as an object graph   *)

FieldNames == {"permissions", "user", "group", "size", "timestamp", "name",
               "type", "target"}

JStr(s) == <<"str", s>>
JNull == <<"null">>

\* An encoding that writes null for every target
entry_dump_no_target(e, exclude_none) ==
    [k \in FieldNames |-> IF k = "target" THEN JNull ELSE JStr(e[k])]

\* One entry's JSON object: the keys it holds and their values
entry_dump(e, exclude_none) ==
    [k \in (IF exclude_none /\ e.target = None THEN FieldNames \ {"target"}
            ELSE FieldNames) |->
        IF k = "target"
        THEN (IF e.target = None THEN JNull ELSE JStr(e.target[1]))
        ELSE JStr(e[k])]

\* listings.model_dump_json(indent=2): no exclude_none argument is given
model_dump_json(entries) ==
    [entries |-> [i \in 1..Len(entries) |-> entry_dump(entries[i], FALSE)]]

\* str.splitlines() for text whose only line boundary is "\n"
splitlines(s) ==
    LET ls == SplitOn(s, "\n")
    IN  IF ls[Len(ls)] = <<>> THEN SubSeq(ls, 1, Len(ls) - 1) ELSE ls

----------------------------------------------------------------------------
(* Variables a specification does not use keep these values *)

SizeIdle == size_bytes = <<>> /\ size_out = Pending
LineIdle == line = <<>> /\ line_pc = "idle" /\ parsed = None
PermIdle == perm_mode = 0 /\ perm_out = Pending
TreeIdle ==
    /\ os_environ = <<>> /\ t_environ0 = <<>> /\ t_pc = "off" /\ t_depth = None
    /\ t_hidden = FALSE /\ t_lsd = FALSE /\ t_env = <<>> /\ t_cmd = <<>>
    /\ t_runs = <<>>
NoOpts == [max_depth |-> None, include_hidden |-> FALSE, follow_symlinks |-> FALSE,
           exclude_globs |-> {}]
NoDir == [path |-> <<>>, depth |-> 0]
ScanIdle ==
    /\ s_fs = {} /\ s_opts = NoOpts /\ s_pc = "off" /\ s_stack = <<>> /\ s_cur = NoDir
    /\ s_iter = <<>> /\ s_nodes = {} /\ s_pushed = <<>> /\ s_scanned = <<>>
ToolIdle == PermIdle /\ TreeIdle /\ ScanIdle

Running == -1

NoLsd == [found |-> FALSE, rc |-> 0, out |-> <<>>]

PathlibOff ==
    /\ p_pc = "off" /\ p_items = <<>> /\ p_idx = 0 /\ p_st = NoStat
    /\ p_type = "" /\ p_entries = <<>> /\ p_statted = <<>> /\ p_stderr = <<>>
    /\ p_stdout = <<>> /\ p_exit = Running

LsdOff ==
    /\ l_pc = "off" /\ l_lines = <<>> /\ l_idx = 0 /\ l_entries = <<>>
    /\ l_stdout = <<>> /\ l_exit = Running

ProgIdle ==
    /\ prog = "none" /\ path_kind = "dir" /\ list_denied = FALSE
    /\ fs = <<>> /\ mutations = 0 /\ lsd_env = NoLsd
    /\ PathlibOff /\ LsdOff

progVars == <<envVars, fs, mutations, pVars, lVars, toolVars>>

----------------------------------------------------------------------------
(* pathlib_collector.main, collect_directory and collect_entry, one action *)
(* per filesystem query                                                    *)

pathlibFrame == <<sizeVars, lineVars, envVars, fs, mutations, lVars, toolVars>>

P_Fatal(msg) ==
    /\ p_stderr' = Append(p_stderr, msg)
    /\ p_exit' = 1
    /\ p_pc' = "done"

\* main: target_path.exists()
P_Exists ==
    /\ p_pc = "exists"
    /\ IF path_kind = "missing"
       THEN P_Fatal(<<"does not exist">>)
       ELSE p_pc' = "is_dir" /\ UNCHANGED <<p_stderr, p_exit>>
    /\ UNCHANGED <<p_items, p_idx, p_st, p_type, p_entries, p_statted, p_stdout>>
    /\ UNCHANGED pathlibFrame

\* main: target_path.is_dir()
P_IsDir ==
    /\ p_pc = "is_dir"
    /\ IF path_kind # "dir"
       THEN P_Fatal(<<"is not a directory">>)
       ELSE p_pc' = "list" /\ UNCHANGED <<p_stderr, p_exit>>
    /\ UNCHANGED <<p_items, p_idx, p_st, p_type, p_entries, p_statted, p_stdout>>
    /\ UNCHANGED pathlibFrame

\* A listing that treats a refused directory as an empty one and goes on
P_ListTolerant ==
    /\ p_pc = "list"
    /\ p_items' = IF list_denied THEN <<>> ELSE sorted_items(fs)
    /\ p_idx' = 1
    /\ p_pc' = IF list_denied \/ iterdir(fs) = {} THEN "print" ELSE "lstat"
    /\ UNCHANGED <<p_stderr, p_exit>>
    /\ UNCHANGED <<p_st, p_type, p_entries, p_statted, p_stdout>>
    /\ UNCHANGED pathlibFrame

\* collect_directory: sorted(directory.iterdir(), ...); PermissionError exits
P_List ==
    /\ p_pc = "list"
    /\ IF list_denied
       THEN P_Fatal(<<"Cannot read directory">>) /\ UNCHANGED <<p_items, p_idx>>
       ELSE /\ p_items' = sorted_items(fs)
            /\ p_idx' = 1
            /\ p_pc' = IF iterdir(fs) = {} THEN "print" ELSE "lstat"
            /\ UNCHANGED <<p_stderr, p_exit>>
    /\ UNCHANGED <<p_st, p_type, p_entries, p_statted, p_stdout>>
    /\ UNCHANGED pathlibFrame

\* The for loop moves to the next item, or ends
P_Advance ==
    /\ p_idx' = p_idx + 1
    /\ p_pc' = IF p_idx + 1 > Len(p_items) THEN "print" ELSE "lstat"

\* collect_entry: st = path.lstat(); OSError is caught by collect_directory
P_Lstat ==
    /\ p_pc = "lstat"
    /\ LET st == lstat(fs, p_items[p_idx])
       IN  IF ~st.ok
           THEN /\ p_stderr' = Append(p_stderr, <<"Warning", p_items[p_idx]>>)
                /\ P_Advance
                /\ UNCHANGED <<p_st, p_statted>>
           ELSE /\ p_st' = st
                /\ p_statted' = Append(p_statted, p_items[p_idx])
                /\ p_pc' = "is_symlink"
                /\ UNCHANGED <<p_stderr, p_idx>>
    /\ UNCHANGED <<p_items, p_type, p_entries, p_stdout, p_exit>>
    /\ UNCHANGED pathlibFrame

\* A type query that asks is_dir(), which follows links, before is_symlink()
P_IsDirBeforeSymlink ==
    /\ p_pc = "is_symlink"
    /\ IF is_dir(fs, p_items[p_idx])
       THEN p_type' = "directory" /\ p_pc' = "is_symlink2"
       ELSE IF is_symlink(fs, p_items[p_idx])
       THEN p_type' = "symlink" /\ p_pc' = "is_symlink2"
       ELSE p_pc' = "is_dir_q" /\ UNCHANGED p_type
    /\ UNCHANGED <<p_items, p_idx, p_st, p_entries, p_statted, p_stderr, p_stdout, p_exit>>
    /\ UNCHANGED pathlibFrame

\* get_file_type: path.is_symlink()
P_IsSymlink ==
    /\ p_pc = "is_symlink"
    /\ IF is_symlink(fs, p_items[p_idx])
       THEN p_type' = "symlink" /\ p_pc' = "is_symlink2"
       ELSE p_pc' = "is_dir_q" /\ UNCHANGED p_type
    /\ UNCHANGED <<p_items, p_idx, p_st, p_entries, p_statted, p_stderr, p_stdout, p_exit>>
    /\ UNCHANGED pathlibFrame

\* get_file_type: path.is_dir()
P_IsDirQ ==
    /\ p_pc = "is_dir_q"
    /\ p_type' = IF is_dir(fs, p_items[p_idx]) THEN "directory" ELSE "file"
    /\ p_pc' = "is_symlink2"
    /\ UNCHANGED <<p_items, p_idx, p_st, p_entries, p_statted, p_stderr, p_stdout, p_exit>>
    /\ UNCHANGED pathlibFrame

\* collect_entry: if path.is_symlink(); without a target the entry is built
P_IsSymlink2 ==
    /\ p_pc = "is_symlink2"
    /\ IF is_symlink(fs, p_items[p_idx])
       THEN p_pc' = "readlink" /\ UNCHANGED <<p_entries, p_idx>>
       ELSE /\ p_entries' = Append(p_entries,
                   FileEntry(entry_data_of(p_items[p_idx], p_st, p_type)))
            /\ P_Advance
    /\ UNCHANGED <<p_items, p_st, p_type, p_statted, p_stderr, p_stdout, p_exit>>
    /\ UNCHANGED pathlibFrame

\* collect_entry: path.readlink(), then the entry is built
P_Readlink ==
    /\ p_pc = "readlink"
    /\ p_entries' = Append(p_entries,
           FileEntry(entry_data_of(p_items[p_idx], p_st, p_type)
                     @@ [target |-> target_of(readlink(fs, p_items[p_idx]))]))
    /\ P_Advance
    /\ UNCHANGED <<p_items, p_st, p_type, p_statted, p_stderr, p_stdout, p_exit>>
    /\ UNCHANGED pathlibFrame

\* main: print(listings.model_dump_json(indent=2)), then the normal exit
P_Print ==
    /\ p_pc = "print"
    /\ p_stdout' = Append(p_stdout, model_dump_json(p_entries))
    /\ p_exit' = 0
    /\ p_pc' = "done"
    /\ UNCHANGED <<p_items, p_idx, p_st, p_type, p_entries, p_statted, p_stderr>>
    /\ UNCHANGED pathlibFrame

PathlibNext ==
    \/ P_Exists \/ P_IsDir \/ P_List \/ P_Lstat \/ P_IsSymlink \/ P_IsDirQ
    \/ P_IsSymlink2 \/ P_Readlink \/ P_Print

----------------------------------------------------------------------------
(* Another process deletes or replaces a child while collect_directory runs *)

RegFile == Child("file", 420, 0, 100, <<15, 0, 0, 0, 0, 0>>, 0, <<>>, "none", FALSE)
DirChild == Child("dir", 493, 1000, 1000, <<0, 4, 0, 0, 0, 0>>, 90061, <<>>, "none", FALSE)
LinkToDir == Child("symlink", 511, 0, 1000, <<1, 0, 0, 0, 0, 0>>, 0, <<"b">>, "dir", FALSE)
LinkToNothing == Child("symlink", 511, 1000, 100, <<3, 0, 0, 0, 0, 0>>, 0,
                       <<".", "/", "a">>, "missing", FALSE)
DeniedFile == Child("file", 420, 0, 100, <<15, 0, 0, 0, 0, 0>>, 0, <<>>, "none", TRUE)

Children == {RegFile, DirChild, LinkToDir, LinkToNothing}

MaxMutations == 2

Mutate ==
    /\ p_pc \in {"lstat", "is_symlink", "is_dir_q", "is_symlink2", "readlink"}
    /\ mutations < MaxMutations
    /\ \E n \in DOMAIN fs, c \in Children \cup {Absent} :
          /\ c # fs[n]
          /\ fs' = [fs EXCEPT ![n] = c]
    /\ mutations' = mutations + 1
    /\ UNCHANGED <<sizeVars, lineVars, envVars, pVars, lVars, toolVars>>

----------------------------------------------------------------------------
(* lsd_parser.main, run_lsd and parse_lsd_output *)

lsdFrame == <<sizeVars, lineVars, envVars, fs, mutations, pVars, toolVars>>

\* main: target_path.exists()
L_Exists ==
    /\ l_pc = "exists"
    /\ IF path_kind = "missing"
       THEN l_exit' = 1 /\ l_pc' = "done"
       ELSE l_pc' = "run_lsd" /\ UNCHANGED l_exit
    /\ UNCHANGED <<l_lines, l_idx, l_entries, l_stdout>>
    /\ UNCHANGED lsdFrame

\* run_lsd, then output.splitlines() in parse_lsd_output
L_RunLsd ==
    /\ l_pc = "run_lsd"
    /\ IF ~lsd_env.found \/ lsd_env.rc # 0
       THEN l_exit' = 1 /\ l_pc' = "done" /\ UNCHANGED <<l_lines, l_idx>>
       ELSE /\ l_lines' = splitlines(lsd_env.out)
            /\ l_idx' = 1
            /\ l_pc' = IF splitlines(lsd_env.out) = <<>> THEN "print" ELSE "parse"
            /\ UNCHANGED l_exit
    /\ UNCHANGED <<l_entries, l_stdout>>
    /\ UNCHANGED lsdFrame

\* A loop that puts each new record in front of the earlier ones
L_ParseLineFront ==
    /\ l_pc = "parse"
    /\ LET entry == parse_lsd_line(l_lines[l_idx])
       IN  /\ l_entries' = IF entry # None THEN <<entry[1]>> \o l_entries
                            ELSE l_entries
           /\ l_idx' = l_idx + 1
           /\ l_pc' = IF l_idx + 1 > Len(l_lines) THEN "print" ELSE "parse"
           /\ UNCHANGED l_exit
    /\ UNCHANGED <<l_lines, l_stdout>>
    /\ UNCHANGED lsdFrame

\* parse_lsd_output: one iteration of the loop over the lines; a validation
\* error leaves main as an uncaught exception
L_ParseLine ==
    /\ l_pc = "parse"
    /\ LET entry == parse_lsd_line(l_lines[l_idx])
       IN  IF entry # None /\ entry[1] = ValidationError
           THEN l_exit' = 1 /\ l_pc' = "done" /\ UNCHANGED <<l_entries, l_idx>>
           ELSE /\ l_entries' = IF entry # None THEN Append(l_entries, entry[1])
                                ELSE l_entries
                /\ l_idx' = l_idx + 1
                /\ l_pc' = IF l_idx + 1 > Len(l_lines) THEN "print" ELSE "parse"
                /\ UNCHANGED l_exit
    /\ UNCHANGED <<l_lines, l_stdout>>
    /\ UNCHANGED lsdFrame

\* main: print(listings.model_dump_json(indent=2)), then the normal exit
L_Print ==
    /\ l_pc = "print"
    /\ l_stdout' = Append(l_stdout, model_dump_json(l_entries))
    /\ l_exit' = 0
    /\ l_pc' = "done"
    /\ UNCHANGED <<l_lines, l_idx, l_entries>>
    /\ UNCHANGED lsdFrame

LsdNext == L_Exists \/ L_RunLsd \/ L_ParseLine \/ L_Print

----------------------------------------------------------------------------
(* Byte counts: below 2^53, where size_bytes / unit_size is exact *)

SizeDigits == {0, 1, 9, 10, 11, 256, 512, 768, 1023}
MaxTopDigit == 7

SizeInputs ==
    {n \in [1..NDigits -> SizeDigits \cup {5}] :
        /\ n[NDigits] <= MaxTopDigit
        /\ Cardinality({i \in 1..NDigits : n[i] # 0}) <= 2
        /\ \A i \in 1..NDigits : n[i] = 5 => i = 1}

SizeInit ==
    /\ size_bytes \in SizeInputs /\ size_out = Pending
    /\ LineIdle /\ ProgIdle /\ ToolIdle

FormatSize ==
    /\ size_out = Pending
    /\ size_out' = format_size(size_bytes)
    /\ UNCHANGED <<size_bytes, lineVars, progVars>>

SizeNext == FormatSize

SpecSize == SizeInit /\ [][SizeNext]_vars

----------------------------------------------------------------------------
(* Listing lines: the first k fields of the fixed column layout followed   *)
(* by a name portion made of letters, spaces and arrows                    *)

PermFields == { <<"d", "r", "w", "x", "r", "-", "x", "r", "-", "x">>,
                <<"-", "r", "w", "-", "r", "-", "-", "r", "-", "-">>,
                <<"l", "r", "w", "x", "r", "w", "x", "r", "w", "x">>,
                <<"c", "r", "w", "-", "r", "w", "-", "-", "-", "-">> }

LayoutFields(perm) ==
    << perm, <<"u">>, <<"g">>, <<"1", "5">>, <<"B">>, <<"F", "r", "i">>,
       <<"J", "a", "n">>, <<"1", "5">>,
       <<"1", "0", ":", "3", "1", ":", "0", "2">>, <<"2", "0", "2", "5">> >>

NLayout == 10
FieldCounts == {0, 7, 8, 9, 10}

NamePieces == { <<"a">>, <<" ">>, <<"-", ">">>, Arrow }
MaxNamePieces == 5

RECURSIVE Concat(_)
Concat(ps) == IF ps = <<>> THEN <<>> ELSE Head(ps) \o Concat(Tail(ps))

NamePortions ==
    UNION {{Concat(ps) : ps \in [1..k -> NamePieces]} : k \in 0..MaxNamePieces}

\* The name portion follows the last layout field after one space
MkLine(perm, k, rest) ==
    LET prefix == join(<<" ">>, SubSeq(LayoutFields(perm), 1, k))
    IN  IF rest = <<>> THEN prefix
        ELSE IF k = 0 THEN rest
        ELSE prefix \o <<" ">> \o rest

LineInputs ==
    {MkLine(perm, k, rest) : perm \in PermFields, k \in FieldCounts, rest \in NamePortions}

LineInit ==
    /\ line \in LineInputs /\ line_pc = "input" /\ parsed = None
    /\ SizeIdle /\ ProgIdle /\ ToolIdle

ParseLine ==
    /\ line_pc = "input"
    /\ parsed' = parse_lsd_line(line)
    /\ line_pc' = "done"
    /\ UNCHANGED <<line, sizeVars, progVars>>

LineNext == ParseLine

SpecLine == LineInit /\ [][LineNext]_vars

----------------------------------------------------------------------------
(* Either program run once on a target path, the directory changing under  *)
(* the collector                                                           *)

MainNames == { <<"a">>, <<"a", " ", "b">>, <<"b">> }

MainDirs == [MainNames -> Children \cup {Absent, DeniedFile}]

PathKinds == {"missing", "file", "dir"}

DirPerm == <<"d", "r", "w", "x", "r", "-", "x", "r", "-", "x">>
FilePerm == <<"-", "r", "w", "-", "r", "-", "-", "r", "-", "-">>
LinkPerm == <<"l", "r", "w", "x", "r", "w", "x", "r", "w", "x">>

SampleLines ==
    { MkLine(FilePerm, NLayout, <<"a", " ", "b">>),
      MkLine(DirPerm, NLayout, <<"b">>),
      MkLine(LinkPerm, NLayout, <<"a">> \o Arrow \o <<"b">>),
      MkLine(LinkPerm, NLayout, <<"a">>),
      MkLine(FilePerm, NLayout - 2, <<>>),
      MkLine(FilePerm, NLayout - 1, <<>>),
      <<" ">> }

MaxLines == 3

\* What the listing tool prints: every line ends with a line feed
LsdOutputs ==
    UNION {{Concat([i \in 1..k |-> ls[i] \o <<"\n">>]) : ls \in [1..k -> SampleLines]}
           : k \in 0..MaxLines}

LsdEnvs ==
    {[found |-> TRUE, rc |-> 0, out |-> o] : o \in LsdOutputs}
    \cup {[found |-> FALSE, rc |-> 0, out |-> <<>>],
          [found |-> TRUE, rc |-> 2, out |-> <<>>]}

PathlibStart ==
    /\ p_pc = "exists" /\ p_items = <<>> /\ p_idx = 0 /\ p_st = NoStat
    /\ p_type = "" /\ p_entries = <<>> /\ p_statted = <<>> /\ p_stderr = <<>>
    /\ p_stdout = <<>> /\ p_exit = Running

LsdStart ==
    /\ l_pc = "exists" /\ l_lines = <<>> /\ l_idx = 0 /\ l_entries = <<>>
    /\ l_stdout = <<>> /\ l_exit = Running

MainInit ==
    /\ SizeIdle /\ LineIdle /\ ToolIdle
    /\ mutations = 0
    /\ path_kind \in PathKinds
    /\ \/ /\ prog = "pathlib"
          /\ list_denied \in BOOLEAN
          /\ fs \in MainDirs
          /\ lsd_env = NoLsd
          /\ PathlibStart /\ LsdOff
       \/ /\ prog = "lsd"
          /\ list_denied = FALSE
          /\ fs = <<>>
          /\ lsd_env \in LsdEnvs
          /\ PathlibOff /\ LsdStart

MainNext == PathlibNext \/ Mutate \/ LsdNext

SpecMain == MainInit /\ [][MainNext]_vars

----------------------------------------------------------------------------
(* Both programs run on one directory that does not change; the listing    *)
(* tool renders the directory's children in the fixed column layout        *)

\* permissions user group size_value size_unit weekday month day time year
\* name [-> target]
RenderLsdLine(f, name) ==
    LET st == lstat(f, name)
        base == join(<<" ">>, << format_permissions(st.st_mode), user_name(st),
                                group_name(st), format_size(st.st_size),
                                format_timestamp(st.st_mtime), name >>)
    IN  IF f[name].kind = "symlink" THEN base \o Arrow \o f[name].link ELSE base

RenderLsd(f) ==
    LET items == sorted_items(f)
    IN  Concat([i \in 1..Len(items) |-> RenderLsdLine(f, items[i]) \o <<"\n">>])

EquivNames == { <<"a", " ", "b">>, <<"a", " ", " ", "b">>, <<"b">> }

LinkToFile == Child("symlink", 511, 1000, 1000, <<1, 0, 0, 0, 0, 0>>, 0, <<"a">>, "file", FALSE)
FifoChild == Child("fifo", 420, 0, 100, <<0, 0, 0, 0, 0, 0>>, 0, <<>>, "none", FALSE)

EquivChildren == Children \cup {LinkToFile, FifoChild}

EquivDirs == [EquivNames -> EquivChildren \cup {Absent}]

EquivInit ==
    /\ SizeIdle /\ LineIdle /\ ToolIdle
    /\ mutations = 0
    /\ prog = "both"
    /\ path_kind = "dir"
    /\ list_denied = FALSE
    /\ fs \in EquivDirs
    /\ lsd_env = [found |-> TRUE, rc |-> 0, out |-> RenderLsd(fs)]
    /\ PathlibStart /\ LsdStart

EquivNext == PathlibNext \/ LsdNext

SpecEquiv == EquivInit /\ [][EquivNext]_vars

----------------------------------------------------------------------------
(* Claims about format_size, under SpecSize *)

\* The digits of a byte count below 1024^3
Bytes(d0, d1, d2) == <<d0, d1, d2, 0, 0, 0>>

\* The largest unit whose scale factor is <= n, B when there is none
C1_Unit(n) ==
    LET fit == {k \in 0..(NUnits - 1) : GeUnit(n, k)}
    IN  IF fit = {} THEN 0 ELSE CHOOSE x \in fit : \A y \in fit : y <= x

C1_AllDigits(v) == Len(v) >= 1 /\ \A i \in 1..Len(v) : IsDigitChar(v[i])

C1_OneDecimal(v) ==
    /\ Len(v) >= 3
    /\ v[Len(v) - 1] = "."
    /\ IsDigitChar(v[Len(v)])
    /\ C1_AllDigits(SubSeq(v, 1, Len(v) - 2))

C1_Examples ==
    /\ size_bytes = Bytes(0, 0, 0) => size_out = <<"0", " ", "B">>
    /\ size_bytes = Bytes(1, 0, 0) => size_out = <<"1", " ", "B">>
    /\ size_bytes = Bytes(1023, 0, 0) => size_out = <<"1", "0", "2", "3", " ", "B">>
    /\ size_bytes = Bytes(0, 1, 0) => size_out = <<"1", ".", "0", " ", "K", "B">>
    /\ size_bytes = Bytes(512, 1, 0) => size_out = <<"1", ".", "5", " ", "K", "B">>
    /\ size_bytes = Bytes(0, 0, 1) => size_out = <<"1", ".", "0", " ", "M", "B">>
    /\ size_bytes = Bytes(0, 0, 10) => size_out = <<"1", "0", " ", "M", "B">>

\* C1: format_size(n) is "<value> <unit>" with the largest unit whose scale
\* factor is <= n (B below 1024); the B unit shows the bare integer n; any
\* other unit shows one decimal digit when n/scale < 10 and none otherwise;
\* 0, 1, 1023, 1024, 1536, 1024^2, 10*1024^2 give "0 B", "1 B", "1023 B",
\* "1.0 KB", "1.5 KB", "1.0 MB", "10 MB".
C1_FormatSizeContract ==
    size_out # Pending =>
        LET k == C1_Unit(size_bytes)
            suffix == <<" ">> \o UnitNames[k + 1]
            vlen == Len(size_out) - Len(suffix)
            v == SubSeq(size_out, 1, vlen)
        IN  /\ vlen >= 1
            /\ SubSeq(size_out, vlen + 1, Len(size_out)) = suffix
            /\ IF k = 0 THEN v = DecChars(IntPart(size_bytes, 0))
               ELSE IF IntPart(size_bytes, k) < 10 THEN C1_OneDecimal(v)
               ELSE C1_AllDigits(v)
            /\ C1_Examples

----------------------------------------------------------------------------
(* Claims about parse_lsd_line, under SpecLine *)

\* The text of s after its first k whitespace-separated fields, without the
\* whitespace around it
RECURSIVE AfterFields(_, _)
DropField(s) == SubSeq(s, FirstSpace(s), Len(s))
AfterFields(s, k) ==
    IF k = 0 THEN strip(s) ELSE AfterFields(DropField(lstrip(s)), k - 1)

NamePortion(s) == AfterFields(s, NLayout)

\* C2: a line that is empty after trimming, or has fewer than 11
\* whitespace-separated fields, yields no record; every record yielded has
\* a non-empty name and a timestamp of exactly five fields.
C2_ShortLinesYieldNothing ==
    line_pc = "done" =>
        /\ (strip(line) = <<>> \/ Len(split(line)) < NLayout + 1) => parsed = None
        /\ parsed # None =>
              /\ parsed[1].name # <<>>
              /\ Len(split(parsed[1].timestamp)) = 5

\* C3: every record of the text-based producer has a target if and only if
\* its type is symlink.
C3_TargetIffSymlink ==
    (line_pc = "done" /\ parsed # None) =>
        (parsed[1].target # None <=> parsed[1].type = "symlink")

\* C5: for a line of at least 11 fields whose name portion holds no " -> ",
\* the record's name is the name portion exactly as it appears in the line
\* after the tenth field, internal spaces (single or consecutive) included.
C5_NameVerbatim ==
    (/\ line_pc = "done"
     /\ Len(split(line)) >= NLayout + 1
     /\ Find(NamePortion(line), Arrow) = 0) =>
        /\ parsed # None
        /\ parsed[1].name = NamePortion(line)

\* C10: for a line whose permissions start with 'l' and whose name portion
\* holds " -> ", the record has type symlink, its name is the text before
\* the first " -> " and its target is all the text after it.
C10_SymlinkSplit ==
    (/\ line_pc = "done"
     /\ Len(split(line)) >= NLayout + 1
     /\ split(line)[1][1] = "l"
     /\ Find(NamePortion(line), Arrow) # 0) =>
        LET rest == NamePortion(line)
            i == Find(rest, Arrow)
        IN  /\ parsed # None
            /\ parsed[1].type = "symlink"
            /\ parsed[1].name = SubSeq(rest, 1, i - 1)
            /\ parsed[1].target = Some(SubSeq(rest, i + Len(Arrow), Len(rest)))

----------------------------------------------------------------------------
(* Claims about the two programs, under SpecMain and SpecEquiv *)

\* Whether every object of a printed document holds the key "target"
\* exactly for the entries that have a target
TargetKeyMatches(out, entries) ==
    \A d \in 1..Len(out) : \A i \in 1..Len(out[d].entries) :
        ("target" \in DOMAIN out[d].entries[i]) <=> (entries[i].target # None)

\* C4: in the JSON document either main prints, an entry without a target
\* has no "target" key at all; the key appears only for entries with one.
C4_TargetKeyOmitted ==
    /\ TargetKeyMatches(p_stdout, p_entries)
    /\ TargetKeyMatches(l_stdout, l_entries)

NamesOf(entries) == {entries[i].name : i \in 1..Len(entries)}

\* C6: for one directory at one instant, collect_directory's collection and
\* parse_lsd_output's collection of the listing lines that render it have
\* the same names and, per name, the same type, permissions, user, group
\* and (for symlinks) target.
C6_ProducersEquivalent ==
    (p_pc = "done" /\ l_pc = "done") =>
        /\ NamesOf(p_entries) = NamesOf(l_entries)
        /\ \A i \in 1..Len(p_entries) : \A j \in 1..Len(l_entries) :
              p_entries[i].name = l_entries[j].name =>
                 /\ p_entries[i].type = l_entries[j].type
                 /\ p_entries[i].permissions = l_entries[j].permissions
                 /\ p_entries[i].user = l_entries[j].user
                 /\ p_entries[i].group = l_entries[j].group
                 /\ p_entries[i].type = "symlink" =>
                       p_entries[i].target = l_entries[j].target

\* The data-model invariants of one record
RecordConsistent(e) ==
    /\ e.target # None <=> e.type = "symlink"
    /\ \/ e.permissions[1] = "d" /\ e.type = "directory"
       \/ e.permissions[1] = "l" /\ e.type = "symlink"
       \/ e.permissions[1] = "-" /\ e.type = "file"

\* C7: every record collect_entry emits satisfies both data-model
\* invariants, whatever another process does to the entry between
\* collect_entry's filesystem queries.
C7_RecordsConsistentUnderRace ==
    \A i \in 1..Len(p_entries) : RecordConsistent(p_entries[i])

InEntry == p_pc \in {"is_symlink", "is_dir_q", "is_symlink2", "readlink"}

EntryNames == [i \in 1..Len(p_entries) |-> p_entries[i].name]

\* The children the loop has dealt with, the one in hand included
Processed == SubSeq(p_items, 1, IF InEntry THEN p_idx ELSE p_idx - 1)

Warned(name) == \E k \in 1..Len(p_stderr) : p_stderr[k] = <<"Warning", name>>

\* C8: collect_directory returns exactly one record for each child whose
\* status call succeeded, in lexicographic order of name, and does not
\* abort when a child's status call fails.
C8_FailingChildrenSkipped ==
    prog = "pathlib" =>
        /\ p_statted = IF InEntry THEN Append(EntryNames, p_items[p_idx]) ELSE EntryNames
        /\ \A i \in 1..Len(EntryNames) : \A j \in 1..Len(EntryNames) :
              i < j => StrLess(EntryNames[i], EntryNames[j])
        /\ \A k \in 1..Len(Processed) :
              Warned(Processed[k]) <=> ~(\E i \in 1..Len(p_statted) : p_statted[i] = Processed[k])
        /\ (p_pc = "done" /\ path_kind = "dir" /\ ~list_denied) =>
              /\ p_exit = 0
              /\ Len(p_stdout) = 1
              /\ Len(p_stdout[1].entries) = Len(p_statted)

\* A child's status call failed, a later child's succeeded, and the run ended
C8_Witness ==
    /\ p_pc = "done" /\ p_exit = 0
    /\ Len(p_items) = 2
    /\ Warned(p_items[1])
    /\ p_statted = <<p_items[2]>>
    /\ EntryNames = <<p_items[2]>>

PathlibFatal == path_kind # "dir" \/ list_denied

LsdFatal == path_kind = "missing" \/ ~lsd_env.found \/ lsd_env.rc # 0

\* C9: after a fatal root-level condition the program ends with a non-zero
\* exit code and has printed no JSON document; exit code 0 occurs only
\* after the complete document was printed.
C9_FatalExitsWithoutOutput ==
    /\ (prog = "pathlib" /\ PathlibFatal) =>
          /\ p_stdout = <<>>
          /\ p_exit # 0
          /\ p_pc \in {"exists", "is_dir", "list", "done"}
          /\ p_pc = "done" => p_exit = 1
    /\ (prog = "lsd" /\ LsdFatal) =>
          /\ l_stdout = <<>>
          /\ l_exit # 0
          /\ l_pc \in {"exists", "run_lsd", "done"}
          /\ l_pc = "done" => l_exit = 1
    /\ IF p_exit = 0
       THEN /\ Len(p_stdout) = 1
            /\ Len(p_stdout[1].entries) = Len(p_entries)
            /\ \A i \in 1..Len(p_entries) :
                  p_stdout[1].entries[i]["name"] = JStr(p_entries[i].name)
       ELSE p_stdout = <<>>
    /\ IF l_exit = 0
       THEN /\ Len(l_stdout) = 1
            /\ Len(l_stdout[1].entries) = Len(l_entries)
            /\ \A i \in 1..Len(l_entries) :
                  l_stdout[1].entries[i]["name"] = JStr(l_entries[i].name)
       ELSE l_stdout = <<>>

\* The collector ended on a listing the target directory refused
C9_Witness ==
    /\ prog = "pathlib" /\ path_kind = "dir" /\ list_denied
    /\ p_pc = "done" /\ p_exit = 1 /\ p_stdout = <<>>

----------------------------------------------------------------------------
(* FileListings validation: a decoded JSON object graph is turned back    *)
(* into records, as FileListings does when given the graph's keys         *)

IsJStr(v) == Len(v) = 2 /\ v[1] = "str"

RequiredFields == FieldNames \ {"target"}

\* FileEntry validation of one decoded object: the seven required fields must
\* be strings and type one of the literals; a null or missing target is None
FileEntry_validate(obj) ==
    IF \E k \in RequiredFields : k \notin DOMAIN obj \/ ~IsJStr(obj[k])
    THEN ValidationError
    ELSE LET entry_data == [permissions |-> obj["permissions"][2],
                            user |-> obj["user"][2],
                            group |-> obj["group"][2],
                            size |-> obj["size"][2],
                            timestamp |-> obj["timestamp"][2],
                            name |-> obj["name"][2],
                            type |-> obj["type"][2]]
         IN  IF "target" \in DOMAIN obj /\ obj["target"] # JNull
             THEN (IF IsJStr(obj["target"])
                   THEN FileEntry(entry_data @@ [target |-> obj["target"][2]])
                   ELSE ValidationError)
             ELSE FileEntry(entry_data)

\* The entries of the validated FileListings
FileListings_validate(data) ==
    [i \in 1..Len(data.entries) |-> FileEntry_validate(data.entries[i])]

RoundTrips(entries) ==
    LET graph == model_dump_json(entries)
        back == FileListings_validate(graph)
    IN  /\ Len(back) = Len(entries)
        /\ \A i \in 1..Len(entries) : back[i] = entries[i]
        /\ model_dump_json(back) = graph

\* C11: encoding a collection and decoding the result gives the same records
\* in the same order, field for field, and encoding the decoded collection
\* gives the first encoding again.
C11_RoundTrip ==
    /\ RoundTrips(p_entries)
    /\ RoundTrips(l_entries)
    /\ \A i \in 1..Len(p_stdout) :
          model_dump_json(FileListings_validate(p_stdout[i])) = p_stdout[i]
    /\ \A i \in 1..Len(l_stdout) :
          model_dump_json(FileListings_validate(l_stdout[i])) = l_stdout[i]

\* A printed collection holding a record with a target and one without
C11_Witness ==
    /\ Len(p_stdout) = 1
    /\ \E i \in 1..Len(p_entries) : p_entries[i].target # None
    /\ \E i \in 1..Len(p_entries) : p_entries[i].target = None
    /\ FileListings_validate(p_stdout[1]) = p_entries

----------------------------------------------------------------------------
(* Claims about collect_entry on a directory that does not change, under   *)
(* SpecEquiv                                                               *)

\* The record collect_directory has built for the child called name, if any
RecordsOf(name) == {i \in 1..Len(p_entries) : p_entries[i].name = name}

\* C12: a uid without a user database entry gives the decimal string of the
\* uid as user, a gid without a group database entry the decimal string of
\* the gid as group, each independently of the other lookup, and the record
\* and the listing are still produced.
C12_IdFallback ==
    /\ \A i \in 1..Len(p_entries) :
          LET e == p_entries[i]
              c == fs[e.name]
          IN  /\ e.user = (IF c.uid = 0 THEN <<"r", "o", "o", "t">> ELSE DecChars(c.uid))
              /\ e.group = (IF c.gid = 100 THEN <<"u", "s", "e", "r", "s">>
                            ELSE DecChars(c.gid))
              /\ c.uid = 1000 => e.user = <<"1", "0", "0", "0">>
              /\ c.gid = 1000 => e.group = <<"1", "0", "0", "0">>
    /\ p_pc = "done" =>
          /\ p_exit = 0
          /\ \A n \in iterdir(fs) : Cardinality(RecordsOf(n)) = 1

\* The listing ended with a record whose uid lookup failed and whose gid
\* lookup succeeded, and one where it is the other way round
C12_Witness ==
    /\ p_pc = "done"
    /\ \E i \in 1..Len(p_entries) :
          /\ p_entries[i].user = <<"1", "0", "0", "0">>
          /\ p_entries[i].group = <<"u", "s", "e", "r", "s">>
    /\ \E i \in 1..Len(p_entries) :
          /\ p_entries[i].user = <<"r", "o", "o", "t">>
          /\ p_entries[i].group = <<"1", "0", "0", "0">>

----------------------------------------------------------------------------
(* Claims about collect_entry's steps, under SpecMain *)

\* The step in which collect_entry reads the link and builds the record
ReadlinkStep == p_pc = "readlink" /\ p_pc' # "readlink"

\* C13: when reading the target of a symlink fails the record is still
\* emitted, with type symlink and target "???"; when the read succeeds the
\* target is the stored link text itself.
C13_ReadlinkSentinel ==
    [][ReadlinkStep =>
          LET e == p_entries'[Len(p_entries')]
              text == readlink(fs, p_items[p_idx])
          IN  /\ Len(p_entries') = Len(p_entries) + 1
              /\ e.name = p_items[p_idx]
              /\ p_type = "symlink" => e.type = "symlink"
              /\ IF text = None
                 THEN e.target = Some(<<"?", "?", "?">>)
                 ELSE e.target = Some(text[1])]_vars

----------------------------------------------------------------------------
(* Claims about parse_lsd_output, under SpecMain *)

\* A line that is not blank and has the minimum number of fields
Qualifies(l) == strip(l) # <<>> /\ Len(split(l)) >= MinParts

\* The lines parse_lsd_output has gone through
LinesDone == SubSeq(l_lines, 1, l_idx - 1)

\* C14: the records of parse_lsd_output are those of the non-blank lines
\* with the minimum field count, one each, in line order; skipped lines
\* change nothing, and a record that fails validation ends the run instead
\* of being skipped.
C14_LineOrder ==
    prog = "lsd" =>
        LET q == SelectSeq(LinesDone, Qualifies)
        IN  /\ Len(l_entries) = Len(q)
            /\ \A i \in 1..Len(q) : Some(l_entries[i]) = parse_lsd_line(q[i])
            /\ \A i \in 1..Len(l_entries) : l_entries[i] # ValidationError
            /\ l_exit = 0 =>
                  /\ Len(LinesDone) = Len(l_lines)
                  /\ Len(l_stdout[1].entries) = Len(q)
            /\ (l_pc = "done" /\ Len(LinesDone) < Len(l_lines)) => l_exit = 1

\* Three lines were parsed: a record, a skipped line, a different record
C14_Witness ==
    /\ prog = "lsd" /\ l_pc = "done" /\ l_exit = 0
    /\ Len(l_lines) = 3
    /\ Qualifies(l_lines[1]) /\ ~Qualifies(l_lines[2]) /\ Qualifies(l_lines[3])
    /\ Len(l_entries) = 2
    /\ l_entries[1] # l_entries[2]

----------------------------------------------------------------------------
(* Claims about the type parse_lsd_line gives, under SpecLine *)

\* C15: the type of a record comes from the first character of the
\* permissions field alone (d: directory, l: symlink, anything else: file),
\* whether or not a target was parsed; a line with l permissions and no
\* " -> " gives type symlink and no target.
C15_TypeFromPermissions ==
    (line_pc = "done" /\ parsed # None) =>
        LET c == strip(line)[1]
        IN  /\ c = "d" => parsed[1].type = "directory"
            /\ c = "l" => parsed[1].type = "symlink"
            /\ c \notin {"d", "l"} => parsed[1].type = "file"
            /\ parsed[1].permissions[1] = c
            /\ (c = "l" /\ Find(line, Arrow) = 0) =>
                  parsed[1].type = "symlink" /\ parsed[1].target = None

\* A line with l permissions and no " -> " was parsed into a record
C15_Witness ==
    /\ line_pc = "done" /\ parsed # None
    /\ strip(line)[1] = "l"
    /\ Find(line, Arrow) = 0
    /\ parsed[1].type = "symlink"
    /\ parsed[1].target = None

\* C16: on a directory that does not change, a symlink is reported as
\* itself whatever it points to (type symlink, permissions l and the link's
\* own mode bits, its own owner and size), a directory that is not a symlink
\* gets type directory, and every other entry gets type file.
C16_SymlinkAsItself ==
    /\ \A i \in 1..Len(p_entries) :
          LET e == p_entries[i]
              c == fs[e.name]
          IN  /\ c.kind = "symlink" =>
                    /\ e.type = "symlink"
                    /\ e.permissions = <<"l">> \o Tail(format_permissions(c.perm))
                    /\ c.perm = 511 =>
                          e.permissions = <<"l", "r", "w", "x", "r", "w", "x", "r", "w", "x">>
                    /\ e.size = format_size(c.size)
              /\ c.kind = "dir" => e.type = "directory" /\ e.permissions[1] = "d"
              /\ c.kind \notin {"symlink", "dir"} =>
                    e.type = "file" /\ e.permissions[1] = "-"
    /\ p_pc = "done" => \A n \in iterdir(fs) : Cardinality(RecordsOf(n)) = 1

\* The listing ended with the records of a symlink to a directory and of an
\* entry that is neither a symlink nor a directory nor a regular file
C16_Witness ==
    /\ p_pc = "done"
    /\ \E i \in 1..Len(p_entries) :
          /\ fs[p_entries[i].name] \in {LinkToDir, LinkToFile, LinkToNothing}
          /\ fs[p_entries[i].name].tkind = "dir"
          /\ p_entries[i].type = "symlink"
    /\ \E i \in 1..Len(p_entries) :
          /\ fs[p_entries[i].name] = FifoChild
          /\ p_entries[i].type = "file"

----------------------------------------------------------------------------
(* format_permissions called once on a mode *)

\* The nine permission bits, in every combination
PermValues == 0..(2 * S_IRUSR - 1)

\* Bits of st_mode that are neither permission bits nor file-type bits:
\* sticky, set-group-id, set-user-id, and a bit above the file-type bits
ExtraBits == {512, 1024, 2048, 65536}

RECURSIVE SumOf(_)
SumOf(S) == IF S = {} THEN 0 ELSE LET x == CHOOSE y \in S : TRUE IN x + SumOf(S \ {x})

ModeInputs ==
    {t + p + SumOf(x) : t \in {S_IFDIR, S_IFLNK, S_IFREG, S_IFIFO},
                        p \in PermValues, x \in SUBSET ExtraBits}

PermInit ==
    /\ perm_mode \in ModeInputs /\ perm_out = Pending
    /\ SizeIdle /\ LineIdle /\ ProgIdle /\ TreeIdle /\ ScanIdle

FormatPermissions ==
    /\ perm_out = Pending
    /\ perm_out' = format_permissions(perm_mode)
    /\ UNCHANGED <<perm_mode, sizeVars, lineVars, envVars, fs, mutations, pVars, lVars,
                   treeVars, scanVars>>

PermNext == FormatPermissions

SpecPerm == PermInit /\ [][PermNext]_vars

\* Bit k of m, bit 0 being the lowest
Bit(m, k) == (m \div (2 ^ k)) % 2

\* The file-type bits of m: bits 12 to 15
TypeNibble(m) == 8 * Bit(m, 15) + 4 * Bit(m, 14) + 2 * Bit(m, 13) + Bit(m, 12)

Letters == <<"r", "w", "x", "r", "w", "x", "r", "w", "x">>

\* C17: format_permissions returns exactly 10 characters; the first is d
\* for a directory mode, l for a symlink mode, - otherwise; positions 1 to 9
\* are rwxrwxrwx for owner, group, other, each the letter when its bit is
\* set and - when it is clear; no other bit of the mode changes the result.
C17_PermissionString ==
    perm_out # Pending =>
        /\ Len(perm_out) = 10
        /\ perm_out[1] = (IF TypeNibble(perm_mode) = 4 THEN "d"
                          ELSE IF TypeNibble(perm_mode) = 10 THEN "l"
                          ELSE "-")
        /\ \A j \in 1..9 :
              perm_out[j + 1] = (IF Bit(perm_mode, 9 - j) = 1 THEN Letters[j] ELSE "-")
        /\ \A x \in SUBSET ExtraBits :
              LET others == SumOf({b \in ExtraBits : (perm_mode \div b) % 2 = 1})
              IN  format_permissions(perm_mode - others + SumOf(x)) = perm_out

\* A symlink mode with mixed permission bits, the set-user-id bit and a bit
\* above the file-type bits was formatted
C17_Witness ==
    /\ perm_mode = S_IFLNK + 65536 + 2048 + S_IRUSR + S_IWUSR + S_IRGRP
    /\ perm_out = <<"l", "r", "w", "-", "r", "-", "-", "-", "-", "-">>

----------------------------------------------------------------------------
(* fileman_snapshot.print_tree_with_lsd, one action per statement, and a   *)
(* subprocess the program starts afterwards                                *)

EnvNames == {"NO_COLOR", "HOME", "TERM"}
EnvValues == {"0", "1"}

\* The environments the process can be started with
Environments == UNION {[D -> EnvValues] : D \in SUBSET EnvNames}

MaxDepthArg == 2

\* d[key] = value for a dict d
SetItem(d, key, value) ==
    [k \in DOMAIN d \cup {key} |-> IF k = key THEN value ELSE d[k]]

treeFrame == <<sizeVars, lineVars, envVars, fs, mutations, pVars, lVars, permVars,
               scanVars>>

TreeInit ==
    /\ os_environ \in Environments
    /\ t_environ0 = os_environ
    /\ t_pc = "copy_env"
    /\ t_depth \in {None} \cup {Some(n) : n \in 0..MaxDepthArg}
    /\ t_hidden \in BOOLEAN
    /\ t_lsd \in BOOLEAN
    /\ t_env = <<>> /\ t_cmd = <<>> /\ t_runs = <<>>
    /\ SizeIdle /\ LineIdle /\ ProgIdle /\ PermIdle /\ ScanIdle

\* cmd = ["lsd", "--tree", ...]; env = dict(os.environ)
T_CopyEnv ==
    /\ t_pc = "copy_env"
    /\ t_cmd' = <<"lsd", "--tree", "--icon", "never", "--ignore-config">>
    /\ t_env' = os_environ
    /\ t_pc' = "override"
    /\ UNCHANGED <<os_environ, t_environ0, t_depth, t_hidden, t_lsd, t_runs>>
    /\ UNCHANGED treeFrame

\* An override written to os.environ itself
T_OverrideGlobal ==
    /\ t_pc = "override"
    /\ os_environ' = SetItem(os_environ, "NO_COLOR", "1")
    /\ t_env' = SetItem(t_env, "NO_COLOR", "1")
    /\ t_pc' = "build_cmd"
    /\ UNCHANGED <<t_environ0, t_depth, t_hidden, t_lsd, t_cmd, t_runs>>
    /\ UNCHANGED treeFrame

\* env["NO_COLOR"] = "1"
T_Override ==
    /\ t_pc = "override"
    /\ t_env' = SetItem(t_env, "NO_COLOR", "1")
    /\ t_pc' = "build_cmd"
    /\ UNCHANGED <<os_environ, t_environ0, t_depth, t_hidden, t_lsd, t_cmd, t_runs>>
    /\ UNCHANGED treeFrame

\* The -a and --depth options and the root are appended to cmd
T_BuildCmd ==
    /\ t_pc = "build_cmd"
    /\ t_cmd' = t_cmd \o (IF t_hidden THEN <<"-a">> ELSE <<>>)
                      \o (IF t_depth # None THEN <<"--depth", DigitChar(t_depth[1])>>
                          ELSE <<>>)
                      \o <<"root">>
    /\ t_pc' = "run"
    /\ UNCHANGED <<os_environ, t_environ0, t_depth, t_hidden, t_lsd, t_env, t_runs>>
    /\ UNCHANGED treeFrame

\* subprocess.run(cmd, env=env, check=False): the child gets env; when the
\* executable cannot be started the call raises FileNotFoundError
T_Run ==
    /\ t_pc = "run"
    /\ IF t_lsd
       THEN t_runs' = Append(t_runs, [cmd |-> t_cmd, env |-> t_env]) /\ t_pc' = "returned"
       ELSE t_pc' = "raised" /\ UNCHANGED t_runs
    /\ UNCHANGED <<os_environ, t_environ0, t_depth, t_hidden, t_lsd, t_env, t_cmd>>
    /\ UNCHANGED treeFrame

\* Any later subprocess started without env= inherits os.environ
T_LaterSubprocess ==
    /\ t_pc \in {"returned", "raised"}
    /\ t_runs' = Append(t_runs, [cmd |-> <<"later">>, env |-> os_environ])
    /\ t_pc' = "done"
    /\ UNCHANGED <<os_environ, t_environ0, t_depth, t_hidden, t_lsd, t_env, t_cmd>>
    /\ UNCHANGED treeFrame

TreeNext == T_CopyEnv \/ T_Override \/ T_BuildCmd \/ T_Run \/ T_LaterSubprocess

SpecTree == TreeInit /\ [][TreeNext]_vars

\* C18: print_tree_with_lsd leaves the process environment as it was; only
\* the environment handed to its own subprocess has NO_COLOR set to 1 (and
\* is otherwise the process environment), and a subprocess started later
\* gets the unchanged process environment.
C18_EnvironmentUnchanged ==
    /\ os_environ = t_environ0
    /\ \A i \in 1..Len(t_runs) :
          IF t_runs[i].cmd = <<"later">>
          THEN t_runs[i].env = t_environ0
          ELSE /\ DOMAIN t_runs[i].env = DOMAIN t_environ0 \cup {"NO_COLOR"}
               /\ t_runs[i].env["NO_COLOR"] = "1"
               /\ \A k \in DOMAIN t_environ0 \ {"NO_COLOR"} :
                     t_runs[i].env[k] = t_environ0[k]

\* lsd ran with NO_COLOR=1 in a process that has no NO_COLOR of its own, and
\* a later subprocess was started
C18_Witness ==
    /\ t_pc = "done" /\ Len(t_runs) = 2
    /\ "NO_COLOR" \notin DOMAIN t_environ0
    /\ "HOME" \in DOMAIN t_environ0
    /\ t_runs[1].env["NO_COLOR"] = "1"
    /\ "NO_COLOR" \notin DOMAIN t_runs[2].env

----------------------------------------------------------------------------
(* fileman_snapshot.scan_tree on a directory tree that does not change     *)

NameA == <<"a">>
NameH == <<".", "h">>

\* What an entry can be.  link_dir is a symlink to root (a cycle through
\* the link); link_broken is a symlink whose target is missing or loops, so
\* a status call that follows it fails; dir_denied is a directory whose
\* listing is refused.
LeafKinds == {"file", "link_dir", "link_broken", "dir_denied"}
SymlinkKinds == {"link_dir", "link_broken"}

MaxTreeDepth == 2

Entry(path, kind) == [path |-> path, kind |-> kind]

\* The trees of at most d levels below prefix: the entry .h is missing, a
\* leaf or an empty directory; the entry a is missing, a leaf, or a
\* directory holding such a tree again
RECURSIVE TreesBelow(_, _)
TreesBelow(prefix, d) ==
    LET h == prefix \o <<NameH>>
        a == prefix \o <<NameA>>
        hs == {{}} \cup {{Entry(h, k)} : k \in LeafKinds \cup {"dir"}}
        subs == IF d > 1 THEN TreesBelow(a, d - 1) ELSE {{}}
        as == {{}} \cup {{Entry(a, k)} : k \in LeafKinds}
                   \cup {{Entry(a, "dir")} \cup t : t \in subs}
    IN  {x \cup y : x \in hs, y \in as}

\* A glob without wildcard characters matches exactly its own text
fnmatch(text, pat) == text = pat

ExcludeSets == { {}, {<<"a">>}, {<<"a", "/", "a">>} }

ScanOptions ==
    [max_depth : {None} \cup {Some(n) : n \in 0..MaxDepthArg},
     include_hidden : BOOLEAN,
     follow_symlinks : BOOLEAN,
     exclude_globs : ExcludeSets]

is_hidden(name) == name # <<>> /\ name[1] = "."

excluded(name, rp, patterns) ==
    \E pat \in patterns : fnmatch(name, pat) \/ fnmatch(rp, pat)

\* str(p.relative_to(root)) with "/" between the components
relpath(path) == join(<<"/">>, path)

KindOf(tree, path) ==
    IF path = <<>> THEN "dir"
    ELSE (CHOOSE r \in tree : r.path = path).kind

\* The directory os.scandir opens for a path: a symlink to root is followed
Resolve(tree, path) == IF KindOf(tree, path) = "link_dir" THEN <<>> ELSE path

\* The names os.scandir yields for a directory
scandir(tree, path) ==
    LET d == Resolve(tree, path)
    IN  {r.path[Len(r.path)] : r \in {x \in tree : /\ Len(x.path) = Len(d) + 1
                                                   /\ SubSeq(x.path, 1, Len(d)) = d}}

\* The orders in which os.scandir may yield a set of names
Orders(S) ==
    {f \in [1..Cardinality(S) -> S] : \A i, j \in 1..Cardinality(S) : f[i] = f[j] => i = j}

\* e.stat(follow_symlinks=follow) succeeds
stat_ok(kind, follow) == ~(follow /\ kind = "link_broken")

Node(path, type) == [path |-> path, type |-> type]

scanFrame == <<sizeVars, lineVars, envVars, fs, mutations, pVars, lVars, permVars,
               treeVars>>

ScanInit ==
    /\ s_fs \in TreesBelow(<<>>, MaxTreeDepth)
    /\ s_opts \in ScanOptions
    /\ s_pc = "start" /\ s_stack = <<>> /\ s_cur = NoDir /\ s_iter = <<>>
    /\ s_nodes = {} /\ s_pushed = <<>> /\ s_scanned = <<>>
    /\ SizeIdle /\ LineIdle /\ ProgIdle /\ PermIdle /\ TreeIdle

\* root_node = DirNode(...); stack = [(root, root_node, 0)]
S_Start ==
    /\ s_pc = "start"
    /\ s_nodes' = {Node(<<>>, "dir")}
    /\ s_stack' = <<[path |-> <<>>, depth |-> 0]>>
    /\ s_pushed' = <<<<>>>>
    /\ s_pc' = "pop"
    /\ UNCHANGED <<s_fs, s_opts, s_cur, s_iter, s_scanned>>
    /\ UNCHANGED scanFrame

\* while stack: pop; skip at max_depth; os.scandir(dpath), OSError skips
S_Pop ==
    /\ s_pc = "pop" /\ s_stack # <<>>
    /\ LET top == s_stack[Len(s_stack)]
           too_deep == s_opts.max_depth # None /\ top.depth >= s_opts.max_depth[1]
       IN  /\ s_stack' = SubSeq(s_stack, 1, Len(s_stack) - 1)
           /\ s_cur' = top
           /\ IF too_deep \/ KindOf(s_fs, top.path) = "dir_denied"
              THEN UNCHANGED <<s_iter, s_scanned, s_pc>>
              ELSE /\ s_iter' \in Orders(scandir(s_fs, top.path))
                   /\ s_scanned' = Append(s_scanned, top.path)
                   /\ s_pc' = IF scandir(s_fs, top.path) = {} THEN "pop" ELSE "entry"
    /\ UNCHANGED <<s_fs, s_opts, s_nodes, s_pushed>>
    /\ UNCHANGED scanFrame

\* A loop body that asks e.is_dir(follow_symlinks=...) before e.is_symlink()
S_EntryDirFirst ==
    /\ s_pc = "entry"
    /\ LET name == Head(s_iter)
           p == Resolve(s_fs, s_cur.path) \o <<name>>
           np == s_cur.path \o <<name>>
           kind == KindOf(s_fs, p)
           skip == \/ ~s_opts.include_hidden /\ is_hidden(name)
                   \/ excluded(name, relpath(np), s_opts.exclude_globs)
                   \/ ~stat_ok(kind, s_opts.follow_symlinks)
           as_dir == \/ kind \in {"dir", "dir_denied"}
                     \/ kind = "link_dir" /\ s_opts.follow_symlinks
       IN  IF skip
           THEN UNCHANGED <<s_nodes, s_stack, s_pushed>>
           ELSE IF as_dir
           THEN /\ s_nodes' = s_nodes \cup {Node(np, "dir")}
                /\ s_stack' = Append(s_stack, [path |-> np, depth |-> s_cur.depth + 1])
                /\ s_pushed' = Append(s_pushed, np)
           ELSE /\ s_nodes' = s_nodes \cup
                       {Node(np, IF kind \in SymlinkKinds THEN "symlink" ELSE "file")}
                /\ UNCHANGED <<s_stack, s_pushed>>
    /\ s_iter' = Tail(s_iter)
    /\ s_pc' = IF Tail(s_iter) = <<>> THEN "pop" ELSE "entry"
    /\ UNCHANGED <<s_fs, s_opts, s_cur, s_scanned>>
    /\ UNCHANGED scanFrame

\* for e in it: one entry of the directory being scanned
S_Entry ==
    /\ s_pc = "entry"
    /\ LET name == Head(s_iter)
           p == Resolve(s_fs, s_cur.path) \o <<name>>
           np == s_cur.path \o <<name>>
           kind == KindOf(s_fs, p)
           skip == \/ ~s_opts.include_hidden /\ is_hidden(name)
                   \/ excluded(name, relpath(np), s_opts.exclude_globs)
                   \/ ~stat_ok(kind, s_opts.follow_symlinks)
       IN  IF skip
           THEN UNCHANGED <<s_nodes, s_stack, s_pushed>>
           ELSE IF kind \in SymlinkKinds
           THEN /\ s_nodes' = s_nodes \cup {Node(np, "symlink")}
                /\ UNCHANGED <<s_stack, s_pushed>>
           ELSE IF kind \in {"dir", "dir_denied"}
           THEN /\ s_nodes' = s_nodes \cup {Node(np, "dir")}
                /\ s_stack' = Append(s_stack, [path |-> np, depth |-> s_cur.depth + 1])
                /\ s_pushed' = Append(s_pushed, np)
           ELSE /\ s_nodes' = s_nodes \cup {Node(np, "file")}
                /\ UNCHANGED <<s_stack, s_pushed>>
    /\ s_iter' = Tail(s_iter)
    /\ s_pc' = IF Tail(s_iter) = <<>> THEN "pop" ELSE "entry"
    /\ UNCHANGED <<s_fs, s_opts, s_cur, s_scanned>>
    /\ UNCHANGED scanFrame

\* The stack is empty: return root_node
S_Return ==
    /\ s_pc = "pop" /\ s_stack = <<>>
    /\ s_pc' = "done"
    /\ UNCHANGED <<s_fs, s_opts, s_stack, s_cur, s_iter, s_nodes, s_pushed, s_scanned>>
    /\ UNCHANGED scanFrame

ScanNext == S_Start \/ S_Pop \/ S_Entry \/ S_Return

\* scan_tree is sequential code: a step that can be taken is taken
SpecScan == ScanInit /\ [][ScanNext]_vars /\ WF_vars(ScanNext)

----------------------------------------------------------------------------
(* Claims about scan_tree, under SpecScan *)

IsSymlinkPath(path) == path # <<>> /\ KindOf(s_fs, path) \in SymlinkKinds

NoRepeats(q) == \A i, j \in 1..Len(q) : q[i] = q[j] => i = j

\* path lies strictly below top
Below(path, top) == Len(path) > Len(top) /\ SubSeq(path, 1, Len(top)) = top

\* Every symlink entry the scan records is a SymlinkNode without children
\* and is never pushed; no directory is pushed or scanned twice; with
\* max_depth set no directory at that depth or deeper is scanned and no node
\* lies deeper than max_depth
ScanSafe ==
    /\ \A n \in s_nodes :
          IsSymlinkPath(n.path) =>
             /\ n.type = "symlink"
             /\ \A m \in s_nodes : ~Below(m.path, n.path)
    /\ \A n \in s_nodes : \A m \in s_nodes : n.path = m.path => n = m
    /\ \A i \in 1..Len(s_pushed) : ~IsSymlinkPath(s_pushed[i])
    /\ \A i \in 1..Len(s_stack) : ~IsSymlinkPath(s_stack[i].path)
    /\ NoRepeats(s_pushed)
    /\ NoRepeats(s_scanned)
    /\ s_opts.max_depth # None =>
          /\ \A i \in 1..Len(s_scanned) : Len(s_scanned[i]) < s_opts.max_depth[1]
          /\ \A n \in s_nodes : Len(n.path) <= s_opts.max_depth[1]

\* C19: scan_tree terminates on every finite tree for every option
\* combination, cycles through symlinks included: a symlink entry that is
\* recorded is a SymlinkNode leaf and is never pushed, each directory is
\* pushed and scanned at most once, and nothing at depth max_depth or below
\* it is scanned.
C19_ScanTerminates == []ScanSafe /\ <>(s_pc = "done")

\* A scan that follows symlinks ended, having recorded inside a directory a
\* symlink that leads back to root
C19_Witness ==
    /\ s_pc = "done"
    /\ s_opts.follow_symlinks
    /\ \E n \in s_nodes :
          /\ Len(n.path) = 2
          /\ KindOf(s_fs, n.path) = "link_dir"
          /\ n.type = "symlink"
    /\ Len(s_scanned) >= 2

====
